---- MODULE Spec2Model ----
(***************************************************************************)
(* mofmt command-line front end (src/main.rs) and the formatter entry      *)
(* points (src/formatter.rs).                                              *)
(*                                                                         *)
(* A text is a sequence of one-character strings.  The lexer/parser        *)
(* (crate::parser) and the two formatter passes (formatting::format,       *)
(* printing::print) are not part of the sources at hand; they are modelled *)
(* from the design document on a miniature grammar:                        *)
(*     stored_definition ::= { statement }                                 *)
(*     statement         ::= WORD { WORD } ";"                             *)
(* where WORD is a maximal run of "t", blanks and line breaks are trivia   *)
(* and any other character is a lexical error.                             *)
(***************************************************************************)
EXTENDS Integers, Sequences, FiniteSets, TLC

\* ------------------------------------------------------------------ bounds

\* Longest argument vector after the program name, a leading --check not
\* counted.
MaxArgs == 3

\* ------------------------------------------------------------- Option<T>

None == <<>>

Some(x) == <<x>>

\* ---------------------------------------------------------------- texts

EOL == <<"\n">>

RECURSIVE WordLen(_, _)
WordLen(s, i) ==
    IF i > Len(s) \/ s[i] # "t" THEN 0 ELSE 1 + WordLen(s, i + 1)

\* The token stream of a source text: significant tokens, each with the
\* number of line breaks in the trivia before it.
RECURSIVE LexFrom(_, _, _, _)
LexFrom(s, i, nl, toks) ==
    IF i > Len(s) THEN toks
    ELSE IF s[i] = "\n" THEN LexFrom(s, i + 1, nl + 1, toks)
    ELSE IF s[i] = " " THEN LexFrom(s, i + 1, nl, toks)
    ELSE IF s[i] = "t"
         THEN LET n == WordLen(s, i)
              IN  LexFrom(s, i + n, 0,
                          Append(toks, [kind |-> "word", len |-> n, nl |-> nl]))
    ELSE IF s[i] = ";"
         THEN LexFrom(s, i + 1, 0,
                      Append(toks, [kind |-> "semi", len |-> 1, nl |-> nl]))
    ELSE LexFrom(s, i + 1, 0,
                 Append(toks, [kind |-> "bad", len |-> 1, nl |-> nl]))

\* tokens().errors(): one diagnostic per illegal character.
LexErrors(toks) ==
    SelectSeq([j \in 1..Len(toks) |->
                  IF toks[j].kind = "bad" THEN "unexpected character" ELSE ""],
              LAMBDA e : e # "")

\* parsed.errors(): a ";" with no word before it, or words with no ";" after.
ParseErrors(toks) ==
    LET sig == SelectSeq(toks, LAMBDA t : t.kind # "bad")
        emptyStmt == \E j \in 1..Len(sig) :
                        /\ sig[j].kind = "semi"
                        /\ (j = 1 \/ sig[j - 1].kind = "semi")
        openStmt == Len(sig) > 0 /\ sig[Len(sig)].kind = "word"
    IN  (IF emptyStmt THEN <<"unexpected ;">> ELSE <<>>)
        \o (IF openStmt THEN <<"expected ;">> ELSE <<>>)

\* ModelicaCST::from(name, source, SyntaxKind::StoredDefinition): a lossless
\* tree: the token stream keeps the source text it was read from.
ModelicaCST(name, source) ==
    LET toks == LexFrom(source, 1, 0, <<>>)
    IN  [name |-> name, code |-> source, tokens |-> toks,
         lexErrors |-> LexErrors(toks), errors |-> ParseErrors(toks)]

\* ------------------------------------------------------------ formatter

Tok(j) == [m |-> "Token", i |-> j]

Mark(k) == [m |-> k, i |-> 0]

\* formatting::format: the marker stream interleaved with token indices.  A
\* statement is one Group with a Soft break between its words and nothing
\* before its ";"; statements are separated by a Hard break, and by one
\* blank line when the source had at least one there.
RECURSIVE MarkFrom(_, _, _)
MarkFrom(toks, j, acc) ==
    IF j > Len(toks) THEN acc
    ELSE LET t == toks[j]
             first == j = 1 \/ toks[j - 1].kind = "semi"
             lead == IF t.kind = "semi" THEN <<>>
                     ELSE IF ~first THEN <<Mark("Soft")>>
                     ELSE (IF j = 1 THEN <<>>
                           ELSE IF t.nl >= 2 THEN <<Mark("Blank")>>
                           ELSE <<Mark("Hard")>>)
                          \o <<Mark("Open")>>
             trail == IF t.kind = "semi" THEN <<Mark("Close")>> ELSE <<>>
         IN  MarkFrom(toks, j + 1, acc \o lead \o <<Tok(j)>> \o trail)

format(cst, max_line_length) ==
    [max |-> max_line_length, marks |-> MarkFrom(cst.tokens, 1, <<>>)]

Spaces(n) == [j \in 1..n |-> " "]

TokenText(t) == IF t.kind = "word" THEN [j \in 1..t.len |-> "t"] ELSE <<";">>

\* The flat width of the group opened at position j of the stream.
RECURSIVE FlatWidth(_, _, _)
FlatWidth(cst, marks, j) ==
    IF j > Len(marks) \/ marks[j].m = "Close" THEN 0
    ELSE IF marks[j].m = "Token"
         THEN cst.tokens[marks[j].i].len + FlatWidth(cst, marks, j + 1)
    ELSE IF marks[j].m = "Soft" THEN 1 + FlatWidth(cst, marks, j + 1)
    ELSE FlatWidth(cst, marks, j + 1)

IndentWidth == 2

\* printing::print: one pass over the stream keeping the output column and
\* whether the open group is broken.
RECURSIVE PrintFrom(_, _, _, _, _, _)
PrintFrom(cst, m, j, col, broken, text) ==
    IF j > Len(m.marks) THEN text
    ELSE LET k == m.marks[j].m
         IN  IF k = "Token"
             THEN LET t == cst.tokens[m.marks[j].i]
                  IN  PrintFrom(cst, m, j + 1, col + t.len, broken,
                                text \o TokenText(t))
             ELSE IF k = "Open"
             THEN LET w == FlatWidth(cst, m.marks, j + 1)
                      fits == m.max = None \/ col + w <= m.max[1]
                  IN  PrintFrom(cst, m, j + 1, col, ~fits, text)
             ELSE IF k = "Close"
             THEN PrintFrom(cst, m, j + 1, col, FALSE, text)
             ELSE IF k = "Soft"
             THEN IF broken
                  THEN PrintFrom(cst, m, j + 1, IndentWidth, broken,
                                 text \o <<"\n">> \o Spaces(IndentWidth))
                  ELSE PrintFrom(cst, m, j + 1, col + 1, broken,
                                 text \o <<" ">>)
             ELSE IF k = "Hard"
             THEN PrintFrom(cst, m, j + 1, 0, broken, text \o <<"\n">>)
             ELSE PrintFrom(cst, m, j + 1, 0, broken, text \o <<"\n", "\n">>)

print(cst, markers) == PrintFrom(cst, markers, 1, 0, FALSE, <<>>)

pretty_print(cst) == print(cst, format(cst, None))

pretty_print_with_line_length(cst, max_line_length) ==
    print(cst, format(cst, Some(max_line_length)))

\* ---------------------------------------------------------- file system

Files == {"a.mo", "d/n.txt", "d/c.mo", "d/s/m.txt", "d/s/e.mo"}

Dirs == {"d", "d/s"}

\* The entries fs::read_dir yields for a directory, in the order it yields them.
Entries(dir) ==
    IF dir = "d" THEN <<"d/n.txt", "d/c.mo", "d/s">>
    ELSE IF dir = "d/s" THEN <<"d/s/m.txt", "d/s/e.mo">>
    ELSE <<>>

\* Path::extension
extension(p) ==
    IF p \in {"a.mo", "d/c.mo", "d/s/e.mo"} THEN Some("mo")
    ELSE IF p \in {"d/n.txt", "d/s/m.txt"} THEN Some("txt")
    ELSE None

\* Path::is_dir
is_dir(p) == p \in Dirs

\* Source texts a file may hold when the program starts.
Canonical == <<"t", " ", "t", ";", "\n">>

Untidy == <<"t", " ", " ", "t", ";", "t", ";", "\n", "\n", "\n", "t", ";">>

Illegal == <<"t", "!", ";", "\n">>

Unfinished == <<"t", ";", "\n", "t", "\n">>

Sources == {Canonical, Untidy, Illegal, Unfinished}

File(mode, text) == [mode |-> mode, text |-> text]

FileSystems ==
    { [f \in Files |->
          IF f = "a.mo" THEN a
          ELSE IF f = "d/c.mo" THEN File("rw", Unfinished)
          ELSE IF f = "d/s/e.mo" THEN File("rw", Canonical)
          ELSE File("rw", <<"t">>)] :
      a \in {File("missing", <<>>)}
            \cup {File("rw", t) : t \in Sources}
            \cup {File("ro", Untidy)} }

\* ------------------------------------------------------------ arguments

ArgTokens == {"--check", "--line-length", "3", "0", "-h", "a.mo", "d"}

\* Every vector of at most MaxArgs arguments, as it is and after --check.
ArgVectors ==
    LET short == UNION { [1..n -> ArgTokens] : n \in 0..MaxArgs }
    IN  { <<"mofmt">> \o s : s \in short }
        \cup { <<"mofmt", "--check">> \o s : s \in short }

\* str::starts_with('-')
starts_with_dash(a) == a \in {"--check", "--line-length", "-h", "--help", "-v", "--version"}

\* str::parse::<usize>
parse_usize(a) ==
    IF a = "0" THEN Some(0) ELSE IF a = "3" THEN Some(3) ELSE None

\* The exit status of a process ended by a panic.
PanicStatus == 101

VARIABLES
    args,         \* env::args(): the program name, then the user's arguments
    fs,           \* the regular files: mode and text
    dirs,         \* for each directory, whether fs::read_dir succeeds
    pc,           \* "main", "expand", "process", "exited"; "idle" between runs
    check,        \* format_files' check
    line_length,  \* format_files' line_length
    paths,        \* format_files' args: the slice args[i..]
    k,            \* the next path argument to expand
    files,        \* format_files' files
    idx,          \* the next element of files to process
    code,         \* format_files' code
    status,       \* the exit status of the process, None while it runs
    outcomes,     \* per processed file: what was reported or written
    calls,        \* the invocations of the formatter entry points
    reads,        \* the paths handed to fs::read_to_string
    fs0,          \* the regular files when this run started
    lastFmt       \* per file, the option under which a run last rewrote it

vars == <<args, fs, dirs, pc, check, line_length, paths, k, files, idx, code,
          status, outcomes, calls, reads, fs0, lastFmt>>

\* ------------------------------------------------------------------ main

\* Mutation of valid_length: the guard n > 0 is left out.
valid_length_any(n) == n >= 0

\* Whether Ok(n) passes the guard of the match on the value of --line-length.
valid_length(n) == n > 0

\* Mutation of parse_step: the loop steps over a path instead of ending.
parse_step_over_paths(a, st) ==
    IF a[st.i] = "--check"
    THEN [st EXCEPT !.check = TRUE, !.i = @ + 1]
    ELSE IF a[st.i] = "--line-length"
    THEN IF st.i + 1 > Len(a)
         THEN [st EXCEPT !.at = "exit"]
         ELSE LET n == parse_usize(a[st.i + 1])
              IN  IF n # None /\ n[1] > 0
                  THEN [st EXCEPT !.line_length = n, !.i = @ + 2]
                  ELSE [st EXCEPT !.at = "exit"]
    ELSE IF starts_with_dash(a[st.i])
    THEN [st EXCEPT !.at = "exit"]
    ELSE [st EXCEPT !.i = @ + 1]

\* One turn of the option loop at position st.i (args[st.i - 1] in the code).
parse_step(a, st) ==
    IF a[st.i] = "--check"
    THEN [st EXCEPT !.check = TRUE, !.i = @ + 1]
    ELSE IF a[st.i] = "--line-length"
    THEN IF st.i + 1 > Len(a)
         THEN [st EXCEPT !.at = "exit"]
         ELSE LET n == parse_usize(a[st.i + 1])
              IN  IF n # None /\ valid_length(n[1])
                  THEN [st EXCEPT !.line_length = n, !.i = @ + 2]
                  ELSE [st EXCEPT !.at = "exit"]
    ELSE IF starts_with_dash(a[st.i])
    THEN [st EXCEPT !.at = "exit"]
    ELSE [st EXCEPT !.at = "break"]

RECURSIVE parse_options(_, _)
parse_options(a, st) ==
    IF st.at # "loop" \/ st.i > Len(a) THEN st
    ELSE parse_options(a, parse_step(a, st))

\* fn main up to its call of format_files: the exit status it ends with, or
\* the arguments it hands to format_files.
main(a) ==
    IF Len(a) < 2 THEN [exit |-> Some(1)]
    ELSE IF a[2] \in {"-h", "--help"} THEN [exit |-> Some(0)]
    ELSE IF a[2] \in {"-v", "--version"} THEN [exit |-> Some(0)]
    ELSE LET st == parse_options(a, [at |-> "loop", i |-> 2, check |-> FALSE,
                                     line_length |-> None])
         IN  IF st.at = "exit" THEN [exit |-> Some(1)]
             ELSE IF st.i > Len(a) THEN [exit |-> Some(1)]
             ELSE [exit |-> None, check |-> st.check,
                   line_length |-> st.line_length,
                   paths |-> SubSeq(a, st.i, Len(a))]

Main ==
    /\ pc = "main"
    /\ LET r == main(args)
       IN  IF r.exit # None
           THEN /\ pc' = "exited"
                /\ status' = r.exit
                /\ UNCHANGED <<check, line_length, paths>>
           ELSE /\ pc' = "expand"
                /\ check' = r.check
                /\ line_length' = r.line_length
                /\ paths' = r.paths
                /\ status' = None
    /\ UNCHANGED <<args, fs, dirs, k, files, idx, code, outcomes, calls, reads,
                   fs0, lastFmt>>

\* ---------------------------------------------------------- format_files

\* Mutation of is_modelica: any extension will do.
is_modelica_any(f) == extension(f) # None

\* fn is_modelica
is_modelica(f) ==
    LET suffix == extension(f)
    IN  IF suffix # None THEN suffix[1] = "mo" ELSE FALSE

\* fn get_files_from_dir: the files found, or a panic when a directory
\* cannot be read.
RECURSIVE get_files_from_dir(_, _)
RECURSIVE collect(_, _, _)
collect(entries, j, readable) ==
    IF j > Len(entries) THEN [ok |-> TRUE, files |-> <<>>]
    ELSE LET p == entries[j]
             v == IF is_dir(p) THEN get_files_from_dir(p, readable)
                  ELSE IF is_modelica(p) THEN [ok |-> TRUE, files |-> <<p>>]
                  ELSE [ok |-> TRUE, files |-> <<>>]
             rest == collect(entries, j + 1, readable)
         IN  IF ~v.ok THEN v
             ELSE IF ~rest.ok THEN rest
             ELSE [ok |-> TRUE, files |-> v.files \o rest.files]

get_files_from_dir(dir, readable) ==
    IF ~readable[dir] THEN [ok |-> FALSE, files |-> <<>>]
    ELSE collect(Entries(dir), 1, readable)

\* Mutation of expanded: the loop over files starts after the first path.
expanded_first(j, ps) == j >= 1

\* Whether the last path argument has been expanded, so that the loop over
\* files starts.
expanded(j, ps) == j = Len(ps)

\* The first loop of format_files, one path argument per step.
Expand ==
    /\ pc = "expand"
    /\ LET p == paths[k]
           v == IF is_dir(p) THEN get_files_from_dir(p, dirs)
                ELSE [ok |-> TRUE, files |-> <<p>>]
       IN  IF ~v.ok
           THEN /\ pc' = "exited"
                /\ status' = Some(PanicStatus)
                /\ UNCHANGED <<files, k>>
           ELSE /\ files' = files \o v.files
                /\ k' = k + 1
                /\ pc' = IF expanded(k, paths) THEN "process" ELSE "expand"
                /\ UNCHANGED status
    /\ UNCHANGED <<args, fs, dirs, check, line_length, paths, idx, code,
                   outcomes, calls, reads, fs0, lastFmt>>

\* fn read_file: whether fs::read_to_string is called, and the result.
read_file(from, fsys) ==
    IF ~is_modelica(from) THEN [read |-> FALSE, res |-> None]
    ELSE IF from \in DOMAIN fsys /\ fsys[from].mode # "missing"
         THEN [read |-> TRUE, res |-> Some(fsys[from].text)]
         ELSE [read |-> TRUE, res |-> None]

\* Mutation of has_errors: the parser's errors are not appended.
has_errors_lexer(parsed) == parsed.lexErrors # <<>>

\* Mutation of has_errors: the errors of the files before are kept.
has_errors_kept(parsed) ==
    \/ parsed.lexErrors \o parsed.errors # <<>>
    \/ \E j \in DOMAIN outcomes : outcomes[j].kind = "syntax"

\* !errors.is_empty() for the lexer's and the parser's errors together.
has_errors(parsed) == parsed.lexErrors \o parsed.errors # <<>>

\* The text handed to the comparison or to write_file.
output(parsed, len) ==
    (IF len # None THEN pretty_print_with_line_length(parsed, len[1])
     ELSE pretty_print(parsed)) \o EOL

\* Mutation of rewrite: the file is written back in check mode too.
rewrite_always(chk) == chk \/ ~chk

\* Whether a formatted file is written back rather than compared.
rewrite(chk) == ~chk

\* Mutation of differs: the text is compared without its line terminator.
differs_unterminated(out, parsed) ==
    SubSeq(out, 1, Len(out) - Len(EOL)) # parsed.code

\* The comparison of check mode: output != parsed.tokens().code()
differs(out, parsed) == out # parsed.code

\* Mutation of set_code: a file that succeeds resets code.
set_code_last(cd, failed) == IF failed THEN 1 ELSE 0

\* code after a file: set by a failure, kept otherwise.
set_code(cd, failed) == IF failed THEN 1 ELSE cd

\* fn write_file: whether fs::write succeeds.
write_ok(to, fsys) == to \in DOMAIN fsys /\ fsys[to].mode = "rw"

Outcome(p, kind, text) == [path |-> p, kind |-> kind, text |-> text]

\* The body of the loop over files, for files[idx].
FormatFile ==
    /\ pc = "process"
    /\ idx <= Len(files)
    /\ LET p == files[idx]
           got == read_file(p, fs)
           contents == got.res
           parsed == ModelicaCST(p, contents[1])
           out == output(parsed, line_length)
       IN  IF contents = None
           THEN /\ code' = set_code(code, TRUE)
                /\ outcomes' = Append(outcomes, Outcome(p, "error", <<>>))
                /\ idx' = idx + 1
                /\ UNCHANGED <<fs, calls, pc, status, lastFmt>>
           ELSE IF has_errors(parsed)
           THEN /\ code' = set_code(code, TRUE)
                /\ outcomes' = Append(outcomes, Outcome(p, "syntax", <<>>))
                /\ idx' = idx + 1
                /\ UNCHANGED <<fs, calls, pc, status, lastFmt>>
           ELSE /\ calls' = Append(calls, [path |-> p, src |-> contents[1],
                                           width |-> line_length])
                /\ IF ~rewrite(check)
                   THEN /\ code' = set_code(code, differs(out, parsed))
                        /\ outcomes' = Append(outcomes,
                              Outcome(p, IF differs(out, parsed) THEN "failed"
                                         ELSE "passed", <<>>))
                        /\ idx' = idx + 1
                        /\ UNCHANGED <<fs, pc, status, lastFmt>>
                   ELSE IF write_ok(p, fs)
                   THEN /\ fs' = [fs EXCEPT ![p].text = out]
                        /\ lastFmt' = [lastFmt EXCEPT ![p] = Some(line_length)]
                        /\ outcomes' = Append(outcomes, Outcome(p, "written", out))
                        /\ idx' = idx + 1
                        /\ UNCHANGED <<code, pc, status>>
                   ELSE /\ pc' = "exited"
                        /\ status' = Some(PanicStatus)
                        /\ outcomes' = Append(outcomes, Outcome(p, "panic", <<>>))
                        /\ UNCHANGED <<fs, code, idx, lastFmt>>
    /\ reads' = IF read_file(files[idx], fs).read THEN reads \cup {files[idx]}
                 ELSE reads
    /\ UNCHANGED <<args, dirs, check, line_length, paths, k, files, fs0>>

\* std::process::exit(code) after the last file.
Exit ==
    /\ pc = "process"
    /\ idx > Len(files)
    /\ pc' = "exited"
    /\ status' = Some(code)
    /\ UNCHANGED <<args, fs, dirs, check, line_length, paths, k, files, idx,
                   code, outcomes, calls, reads, fs0, lastFmt>>

\* The exited process is gone: nothing of it is left but the files.
Reap ==
    /\ pc = "exited"
    /\ pc' = "idle"
    /\ args' = <<>>
    /\ fs0' = fs
    /\ check' = FALSE
    /\ line_length' = None
    /\ paths' = <<>>
    /\ k' = 1
    /\ files' = <<>>
    /\ idx' = 1
    /\ code' = 0
    /\ status' = None
    /\ outcomes' = <<>>
    /\ calls' = <<>>
    /\ reads' = {}
    /\ UNCHANGED <<fs, dirs, lastFmt>>

\* The program is started again, with any arguments, on the files as the
\* run before left them.
Start ==
    /\ pc = "idle"
    /\ args' \in ArgVectors
    /\ pc' = "main"
    /\ UNCHANGED <<fs, dirs, check, line_length, paths, k, files, idx, code,
                   status, outcomes, calls, reads, fs0, lastFmt>>

Init ==
    /\ args \in ArgVectors
    /\ fs \in FileSystems
    /\ dirs \in {[dir \in Dirs |-> dir # "d" \/ b] : b \in BOOLEAN}
    /\ pc = "main"
    /\ check = FALSE
    /\ line_length = None
    /\ paths = <<>>
    /\ k = 1
    /\ files = <<>>
    /\ idx = 1
    /\ code = 0
    /\ status = None
    /\ outcomes = <<>>
    /\ calls = <<>>
    /\ reads = {}
    /\ fs0 = fs
    /\ lastFmt = [f \in Files |-> None]

Next == Main \/ Expand \/ FormatFile \/ Exit \/ Reap \/ Start

Spec == Init /\ [][Next]_vars

\* ================================================================ claims

\* format_files has been called in this run.
Called == paths # <<>>

\* The command line as its usage text reads it: options up to the first
\* path, the word after --line-length being that option's value.
RECURSIVE Usage(_, _, _)
Usage(a, j, u) ==
    IF j > Len(a) THEN [u EXCEPT !.first = j]
    ELSE IF a[j] = "--check"
    THEN Usage(a, j + 1, [u EXCEPT !.checks = @ \cup {j}])
    ELSE IF a[j] = "--line-length"
    THEN Usage(a, j + 2, [u EXCEPT !.lengths = @ \cup {j}])
    ELSE IF starts_with_dash(a[j])
    THEN Usage(a, j + 1, [u EXCEPT !.unknown = @ \cup {j}])
    ELSE [u EXCEPT !.first = j]

Cmd == Usage(args, 2, [first |-> 2, checks |-> {}, lengths |-> {}, unknown |-> {}])

\* The first argument is one of the help or version options, which end the
\* program before any option is parsed.
HelpOrVersion ==
    Len(args) >= 2 /\ args[2] \in {"-h", "--help", "-v", "--version"}

HasMoExtension(p) == p \in {"a.mo", "d/c.mo", "d/s/e.mo"}

SyntaxErrors(text) ==
    LET cst == ModelicaCST("", text) IN cst.lexErrors # <<>> \/ cst.errors # <<>>

Formatted(text, len) ==
    LET cst == ModelicaCST("", text)
    IN  (IF len = None THEN pretty_print(cst)
         ELSE pretty_print_with_line_length(cst, len[1])) \o EOL

NothingTouched == reads = {} /\ outcomes = <<>> /\ calls = <<>> /\ fs = fs0

Failed(j) == outcomes[j].kind \in {"error", "syntax", "failed"}

\* The directories read when a directory is traversed.
Under(dir) == IF dir = "d" THEN {"d", "d/s"} ELSE {dir}

\* A directory among the path arguments cannot be read.
DirFailure ==
    \E j \in DOMAIN paths :
        is_dir(paths[j]) /\ \E dir \in Under(paths[j]) : ~dirs[dir]

\* C1: with --check given before the first path no file is written: the
\* files are as they were when the run started, and every processed file
\* ends in a report (read error, syntax errors, check passed, check failed).
C1_CheckModeWritesNothing ==
    (pc \notin {"main", "idle"} /\ ~HelpOrVersion /\ Cmd.checks # {}) =>
        /\ fs = fs0
        /\ \A j \in DOMAIN outcomes :
              outcomes[j].kind \in {"error", "syntax", "passed", "failed"}

C1_Witness ==
    /\ pc = "exited"
    /\ Cmd.checks # {}
    /\ \E j \in DOMAIN outcomes : outcomes[j].kind = "failed"
    /\ \E j \in DOMAIN outcomes : outcomes[j].kind = "syntax"
    /\ fs = fs0

\* C2: a file whose parse yields a lexer or parser error is never handed to
\* pretty_print / pretty_print_with_line_length and never written, in check
\* and in non-check mode; its errors are reported and code is 1 from then on.
C2_ErrorsSkipFormatting ==
    /\ \A j \in DOMAIN calls : ~SyntaxErrors(calls[j].src)
    /\ \A j \in DOMAIN outcomes :
          LET p == outcomes[j].path
          IN  (p \in reads /\ p \in Files /\ fs0[p].mode # "missing" /\ SyntaxErrors(fs0[p].text)) =>
                  /\ outcomes[j].kind = "syntax"
                  /\ fs[p] = fs0[p]
                  /\ \A c \in DOMAIN calls : calls[c].path # p
                  /\ code = 1
                  /\ pc = "exited" => status # Some(0)

C2_Witness ==
    /\ pc = "exited"
    /\ ~check
    /\ status = Some(1)
    /\ \E j \in DOMAIN outcomes :
          /\ outcomes[j].kind = "syntax"
          /\ outcomes[j].path = "a.mo"
          /\ fs["a.mo"].text = Illegal
    /\ \E j \in DOMAIN outcomes : outcomes[j].kind = "written"

\* C3 as stated: the exit status of a run of format_files is nonzero exactly
\* when a file failed to read, had syntax errors or failed its check (here
\* for the runs in which every directory can be read).
C3_StatusIffFileFailed ==
    (pc = "exited" /\ Called /\ ~DirFailure) =>
        (status # Some(0) <=> \E j \in DOMAIN outcomes : Failed(j))

\* C3 amended: the exit status is nonzero exactly when a processed file
\* failed to read, had syntax errors or failed its check, or when the run
\* ended in a panic (a directory that cannot be read, a file that cannot be
\* written); code, once 1, stays 1 whatever the later files do.
C3_StatusAggregate ==
    /\ (\E j \in DOMAIN outcomes : Failed(j)) => code = 1
    /\ (\A j \in DOMAIN outcomes : ~Failed(j)) => code = 0
    /\ (pc = "exited" /\ Called) =>
          LET failed == \E j \in DOMAIN outcomes : Failed(j)
              panicked == DirFailure
                          \/ \E j \in DOMAIN outcomes : outcomes[j].kind = "panic"
          IN  /\ status # Some(0) <=> (failed \/ panicked)
              /\ panicked => status = Some(PanicStatus)
              /\ (failed /\ ~panicked) => status = Some(1)

C3_Witness ==
    /\ pc = "exited"
    /\ status = Some(1)
    /\ \E j, h \in DOMAIN outcomes :
          /\ j < h
          /\ Failed(j)
          /\ outcomes[h].kind \in {"passed", "written"}

\* C4 as stated: a failure on one file, a failed write included, never ends
\* the run: when the process has exited, every file of the expanded list
\* has been processed, in order.
C4_EveryFileProcessed ==
    (pc = "exited" /\ Called /\ ~DirFailure) =>
        /\ Len(outcomes) = Len(files)
        /\ \A j \in DOMAIN outcomes : outcomes[j].path = files[j]

Expected(p) ==
    IF ~HasMoExtension(p) \/ fs0[p].mode = "missing"
    THEN Outcome(p, "error", <<>>)
    ELSE LET cst == ModelicaCST(p, fs0[p].text)
             text == (IF line_length = None THEN pretty_print(cst)
                      ELSE pretty_print_with_line_length(cst, line_length[1]))
                     \o EOL
         IN  IF cst.lexErrors # <<>> \/ cst.errors # <<>>
             THEN Outcome(p, "syntax", <<>>)
             ELSE IF check
             THEN Outcome(p, IF text = fs0[p].text THEN "passed" ELSE "failed",
                          <<>>)
             ELSE IF fs0[p].mode = "ro" THEN Outcome(p, "panic", <<>>)
             ELSE Outcome(p, "written", text)

\* C6: the outcome of every processed file (the text written, the verdict
\* or the error) is a function of that file, the check flag and the
\* line-length setting: the files processed before it, their outcomes and
\* its position in the list do not bear on it.
C6_OutcomePerFile ==
    \A j \in DOMAIN outcomes : outcomes[j] = Expected(outcomes[j].path)

C6_Witness ==
    /\ pc = "exited"
    /\ \E j, h, g \in DOMAIN outcomes :
          /\ j < h /\ h < g
          /\ outcomes[j].kind = "syntax"
          /\ outcomes[h].kind = "written"
          /\ outcomes[g].path = outcomes[h].path
          /\ outcomes[g].kind = "written"
          /\ outcomes[h].text # fs0[outcomes[h].path].text

PositiveInteger(a) == a = "3"

\* C7: the width handed to the formatter is absent or positive.  An option
\* --line-length whose value is missing, zero, negative or not a number ends
\* the program with status 1 before any file is read or written; without
\* the option every file is formatted by pretty_print, with it every file
\* is formatted by pretty_print_with_line_length with the value given.
C7_LineLength ==
    (pc \notin {"main", "idle"} /\ ~HelpOrVersion) =>
        LET given == Cmd.lengths
            bad == {j \in given :
                       j + 1 > Len(args) \/ ~PositiveInteger(args[j + 1])}
            last == CHOOSE j \in given : \A h \in given : h <= j
        IN  /\ bad # {} =>
                  pc = "exited" /\ status = Some(1) /\ NothingTouched /\ ~Called
            /\ Called =>
                  /\ line_length = None \/ line_length[1] > 0
                  /\ given = {} => line_length = None
                  /\ given # {} => line_length = parse_usize(args[last + 1])
            /\ \A j \in DOMAIN calls : calls[j].width = line_length

C7_Witness ==
    /\ pc = "exited"
    /\ line_length = Some(3)
    /\ calls = <<[path |-> "a.mo", src |-> Untidy, width |-> Some(3)]>>
    /\ outcomes = <<Outcome("a.mo", "written", Formatted(Untidy, Some(3)))>>
    /\ fs["a.mo"].text = outcomes[1].text

\* C8: a path argument that is no directory and has no extension mo is not
\* read, parsed or written, is reported as an error and sets code to 1; a
\* file without the extension mo met in a directory is left out of the file
\* list, whatever the depth; only files with the extension mo are written.
C8_ExtensionFilter ==
    LET other(p) == ~HasMoExtension(p) /\ ~is_dir(p)
    IN  /\ \A j \in DOMAIN outcomes :
              other(outcomes[j].path) =>
                  /\ outcomes[j].kind = "error"
                  /\ code = 1
                  /\ pc = "exited" => status # Some(0)
        /\ \A p \in reads : HasMoExtension(p)
        /\ \A j \in DOMAIN calls : HasMoExtension(calls[j].path)
        /\ \A p \in Files : ~HasMoExtension(p) => fs[p] = fs0[p]
        /\ pc \in {"process", "exited"} /\ Called /\ ~DirFailure =>
              SelectSeq(files, other) = SelectSeq(paths, other)

C8_Witness ==
    /\ pc = "exited"
    /\ paths = <<"d", "3">>
    /\ files = <<"d/c.mo", "d/s/e.mo", "3">>
    /\ Len(outcomes) = 3
    /\ outcomes[3] = Outcome("3", "error", <<>>)
    /\ status = Some(1)

\* C9: options end at the first argument that is no option (nor the value
\* of --line-length): it and all that follow are paths, so --check or
\* --line-length after a path leaves the mode as it was and is itself
\* reported as a path that is no Modelica file.  An unrecognized option
\* before the first path, or options with no path, end the program with
\* status 1 and nothing read or written.
C9_OptionsThenPaths ==
    (pc \notin {"main", "idle"} /\ ~HelpOrVersion) =>
        LET cmd == Cmd
        IN  /\ Called =>
                  /\ paths = SubSeq(args, cmd.first, Len(args))
                  /\ check = (cmd.checks # {})
            /\ \A j \in DOMAIN outcomes :
                  outcomes[j].path \in {"--check", "--line-length"} =>
                      outcomes[j].kind = "error"
            /\ (cmd.unknown # {} \/ cmd.first > Len(args)) =>
                  pc = "exited" /\ status = Some(1) /\ NothingTouched /\ ~Called
            /\ (/\ cmd.unknown = {}
                /\ cmd.first <= Len(args)
                /\ \A j \in cmd.lengths : PositiveInteger(args[j + 1])) => Called

C9_Witness ==
    /\ pc = "exited"
    /\ args = <<"mofmt", "a.mo", "--check">>
    /\ ~check
    /\ outcomes = <<Outcome("a.mo", "written", fs["a.mo"].text),
                    Outcome("--check", "error", <<>>)>>
    /\ fs # fs0

\* The Modelica files of a directory, in the order of traversal.
ModelicaFilesIn(p) ==
    IF p = "d" THEN <<"d/c.mo", "d/s/e.mo">>
    ELSE IF p = "d/s" THEN <<"d/s/e.mo">>
    ELSE <<p>>

RECURSIVE Expansion(_)
Expansion(ps) ==
    IF ps = <<>> THEN <<>>
    ELSE ModelicaFilesIn(Head(ps)) \o Expansion(Tail(ps))

\* C10: every path argument is expanded before the first file is read or
\* written: while arguments are being expanded nothing has been read or
\* written, the file list is complete when the first file is read, and a
\* directory that cannot be read ends the process with every file as it
\* was.
C10_ExpandBeforeFormat ==
    /\ pc = "expand" => NothingTouched
    /\ (pc = "process" \/ reads # {} \/ outcomes # <<>> \/ fs # fs0) =>
          k = Len(paths) + 1 /\ files = Expansion(paths)
    /\ (Called /\ DirFailure) => NothingTouched

C10_Witness ==
    /\ pc = "exited"
    /\ status = Some(PanicStatus)
    /\ paths = <<"a.mo", "d">>
    /\ fs["a.mo"] = File("rw", Untidy)
    /\ fs = fs0
    /\ files = <<"a.mo">>
====
